---- MODULE Spec2Model ----
(***************************************************************************)
(* Model of the Fiindo ETL pipeline (src/src/main.py, src/src/models.py):  *)
(* the metric calculator FiindoETL.calculate_metrics, the data-provider    *)
(* accessors and the pipeline FiindoETL.run with its two tables.           *)
(*                                                                         *)
(* JSON values are records [k, v]: k = "absent" (the key is not in the     *)
(* object), "null" (JSON null, Python None), "num" (a number, v its        *)
(* value) or "str" (a non-empty non-numeric string).  Metric values are    *)
(* records [k, n, d]: k = "null" (None) or "num" (the rational n/d, in     *)
(* lowest terms with d > 0).  Python floats are modelled by exact          *)
(* rationals; rounding is not modelled.  Dates are ISO strings, modelled   *)
(* by their rank: a later date has a larger number and the empty string,   *)
(* the default of x.get('date', ''), is 0.                                 *)
(***************************************************************************)
EXTENDS Integers, Sequences, FiniteSets, TLC

VARIABLES
    \* ---- the metric calculator called on its own ----
    c_price,        \* argument price
    c_income,       \* argument income_raw
    c_balance,      \* argument balance_raw
    c_out,          \* what the last call of calculate_metrics did
    c_edits,        \* number of changes made to the arguments so far
    \* ---- the pipeline ----
    pc,             \* position of run()
    store,          \* committed rows of ticker_statistics
    aggs,           \* committed rows of industry_aggregations
    sess,           \* ticker_statistics as the open session sees it
    symbols,        \* the symbol list of the current run
    idx,            \* number of symbols of the list attempted so far
    health,         \* the text of the last health probe
    attempt,        \* what the last loop iteration fetched and did
    fetched,        \* whether this run called the data provider after the probe
    commits,        \* session.commit() calls of this run
    latest,         \* per symbol, the values of its last committed computation
    staged          \* per symbol, the values of its last computation in the session

calcVars == <<c_price, c_income, c_balance, c_out, c_edits>>
pipeVars == <<pc, store, aggs, sess, symbols, idx, health, attempt,
              fetched, commits, latest, staged>>
vars == <<c_price, c_income, c_balance, c_out, c_edits,
          pc, store, aggs, sess, symbols, idx, health, attempt,
          fetched, commits, latest, staged>>

----------------------------------------------------------------------------
\* Bounds of the model

\* Changes made to the arguments of calculate_metrics after the first call.
MaxEdits == 1
\* Largest number a changed field is set to.
MaxVal == 2
\* Largest date rank a changed date is set to.
MaxDate == 3

----------------------------------------------------------------------------
\* JSON values and metric values

Absent == [k |-> "absent", v |-> 0]
Null == [k |-> "null", v |-> 0]
Num(n) == [k |-> "num", v |-> n]
Str == [k |-> "str", v |-> 0]

IsNum(x) == x.k = "num"

\* Python truthiness of a value: None, 0 and a missing value are false.
Truthy(x) == (x.k = "num" /\ x.v # 0) \/ x.k = "str"

Abs(n) == IF n < 0 THEN -n ELSE n

RECURSIVE Gcd(_, _)
Gcd(a, b) == IF b = 0 THEN a ELSE Gcd(b, a % b)

None == [k |-> "null", n |-> 0, d |-> 1]

\* The number n/d (d # 0) in lowest terms, with a positive denominator.
Frac(n, d) ==
    LET g == Gcd(Abs(n), Abs(d))
        s == IF d < 0 THEN -1 ELSE 1
    IN  [k |-> "num", n |-> (s * n) \div g, d |-> Abs(d) \div g]

\* A Python value read from a row, as the metric value stored for it.
AsMetric(x) == IF IsNum(x) THEN Frac(x.v, 1) ELSE None

FracAdd(a, b) == Frac(a.n * b.d + b.n * a.d, a.d * b.d)

----------------------------------------------------------------------------
\* Statement rows

Fields == {"eps", "revenue", "netIncome", "totalDebt", "totalEquity",
           "totalStockholdersEquity"}

\* A row that is a JSON object.  shape = "scalar" is a row that is not an
\* object (a number, a string): x.get raises AttributeError on it.
Row(p, dt, e, r, ni) ==
    [shape |-> "object", period |-> p, date |-> dt, eps |-> e, revenue |-> r,
     netIncome |-> ni, totalDebt |-> Absent, totalEquity |-> Absent,
     totalStockholdersEquity |-> Absent]

BalRow(p, dt, debt, eq, seq) ==
    [shape |-> "object", period |-> p, date |-> dt, eps |-> Absent,
     revenue |-> Absent, netIncome |-> Absent, totalDebt |-> debt,
     totalEquity |-> eq, totalStockholdersEquity |-> seq]

ScalarRow == [Row("none", Absent, Absent, Absent, Absent) EXCEPT !.shape = "scalar"]

\* dict.get(key, default): the default only when the key is not in the object.
Get(row, key, default) == IF row[key].k = "absent" THEN default ELSE row[key]

\* The sort key x.get('date', '').
DateKey(row) == Get(row, "date", Num(0))

\* An argument of calculate_metrics: None, a list of rows, or a value that is
\* neither (a number, a string, an object).
NoneRaw == [shape |-> "none", rows |-> <<>>]
ListRaw(rows) == [shape |-> "list", rows |-> rows]
ScalarRaw == [shape |-> "scalar", rows |-> <<>>]

\* "if not income_raw: income_raw = []" (main.py 123, 139)
Falsy(raw) == raw.shape = "none" \/ (raw.shape = "list" /\ raw.rows = <<>>)

Quarters == {"Q1", "Q2", "Q3", "Q4"}

RECURSIVE SelectRows(_, _)
SelectRows(rows, periods) ==
    IF rows = <<>> THEN <<>>
    ELSE IF Head(rows).period \in periods
         THEN <<Head(rows)>> \o SelectRows(Tail(rows), periods)
         ELSE SelectRows(Tail(rows), periods)

\* One step of a stable descending sort: r goes after every row whose key is
\* at least its own (sorted(..., reverse=True) keeps equal keys in input order).
RECURSIVE InsertDescWrong(_, _)
InsertDescWrong(sorted, r) ==
    IF sorted = <<>> THEN <<r>>
    ELSE IF DateKey(Head(sorted)).v <= DateKey(r).v
         THEN <<Head(sorted)>> \o InsertDescWrong(Tail(sorted), r)
         ELSE <<r>> \o sorted

RECURSIVE InsertDesc(_, _)
InsertDesc(sorted, r) ==
    IF sorted = <<>> THEN <<r>>
    ELSE IF DateKey(Head(sorted)).v >= DateKey(r).v
         THEN <<Head(sorted)>> \o InsertDesc(Tail(sorted), r)
         ELSE <<r>> \o sorted

RECURSIVE SortDesc(_)
SortDesc(rows) ==
    IF rows = <<>> THEN <<>>
    ELSE InsertDesc(SortDesc(SubSeq(rows, 1, Len(rows) - 1)), rows[Len(rows)])

\* sorted() compares the keys: with two or more rows, a key that is None
\* raises TypeError (None is not ordered against a string or against None).
SortRaises(rows) ==
    Len(rows) >= 2 /\ \E i \in 1..Len(rows) : DateKey(rows[i]).k = "null"

\* The rows the comprehensions iterate over.
RowsOf(raw) == IF Falsy(raw) THEN <<>> ELSE raw.rows

\* x.get('period') raises on a row that is no object, and iterating a value
\* that is no list raises or yields items that are no objects.
FilterRaises(raw) ==
    ~Falsy(raw) /\ (raw.shape = "scalar"
                    \/ \E i \in 1..Len(raw.rows) : raw.rows[i].shape # "object")

income_quarters(income_raw) == SortDesc(SelectRows(RowsOf(income_raw), Quarters))

income_years(income_raw) == SortDesc(SelectRows(RowsOf(income_raw), {"FY"}))

balance_years(balance_raw) == SortDesc(SelectRows(RowsOf(balance_raw), {"FY"}))

\* The data preparation (main.py 120-144) is outside every try block.
PrepRaises(income_raw, balance_raw) ==
    \/ FilterRaises(income_raw)
    \/ SortRaises(SelectRows(RowsOf(income_raw), Quarters))
    \/ SortRaises(SelectRows(RowsOf(income_raw), {"FY"}))
    \/ FilterRaises(balance_raw)
    \/ SortRaises(SelectRows(RowsOf(balance_raw), {"FY"}))

----------------------------------------------------------------------------
\* FiindoETL.calculate_metrics

\* 1. PE ratio (main.py 150-156).  A division whose operand is no number
\* raises TypeError inside the try and leaves the initial None.
pe_ratio(price, iq) ==
    IF iq = <<>> THEN None
    ELSE LET last_q_eps == Get(iq[1], "eps", Num(0))
         IN  IF Truthy(last_q_eps) /\ IsNum(last_q_eps) /\ IsNum(price)
             THEN Frac(price.v, last_q_eps.v)
             ELSE None

\* 2. Revenue growth (main.py 160-168): indexes 1 and 2 of the sorted list,
\* which are iq[2] and iq[3] here.
revenue_growth_latest(iq) ==
    IF Len(iq) < 3 THEN None
    ELSE LET rev_q1 == Get(iq[1], "revenue", Num(0))
             rev_q2 == Get(iq[2], "revenue", Num(0))
         IN  IF Truthy(rev_q2) /\ IsNum(rev_q2) /\ IsNum(rev_q1)
             THEN Frac(rev_q1.v - rev_q2.v, rev_q2.v)
             ELSE None

revenue_growth(iq) ==
    IF Len(iq) < 3 THEN None
    ELSE LET rev_q1 == Get(iq[2], "revenue", Num(0))
             rev_q2 == Get(iq[3], "revenue", Num(0))
         IN  IF Truthy(rev_q2) /\ IsNum(rev_q2) /\ IsNum(rev_q1)
             THEN Frac(rev_q1.v - rev_q2.v, rev_q2.v)
             ELSE None

\* sum(q.get(key, 0) for q in rows): raises TypeError when a value is None.
SumRaises(rows, key) == \E i \in 1..Len(rows) : ~IsNum(Get(rows[i], key, Num(0)))

RECURSIVE SumOf(_, _)
SumOf(rows, key) ==
    IF rows = <<>> THEN 0
    ELSE Get(Head(rows), key, Num(0)).v + SumOf(Tail(rows), key)

First4(iq) == SubSeq(iq, 1, 4)

\* 3. Net income TTM and TTM revenue (main.py 172-186).  The two assignments
\* of a branch run in order: an exception in the second leaves the first done.
net_income_ttm(iq, iy) ==
    IF Len(iq) >= 4
    THEN IF SumRaises(First4(iq), "netIncome") THEN None
         ELSE Frac(SumOf(First4(iq), "netIncome"), 1)
    ELSE IF iy # <<>> THEN AsMetric(Get(iy[1], "netIncome", Num(0)))
    ELSE None

last_revenue(iq, iy) ==
    IF Len(iq) >= 4
    THEN IF SumRaises(First4(iq), "netIncome") \/ SumRaises(First4(iq), "revenue")
         THEN Frac(0, 1)
         ELSE Frac(SumOf(First4(iq), "revenue"), 1)
    ELSE IF iy # <<>> THEN AsMetric(Get(iy[1], "revenue", Num(0)))
    ELSE Frac(0, 1)

\* 4. Debt ratio (main.py 190-199).
debt_ratio(by) ==
    IF by = <<>> THEN None
    ELSE LET last_fy == by[1]
             debt == Get(last_fy, "totalDebt", Num(0))
             equity == Get(last_fy, "totalEquity",
                           Get(last_fy, "totalStockholdersEquity", Num(0)))
         IN  IF Truthy(equity) /\ IsNum(equity) /\ IsNum(debt)
             THEN Frac(debt.v, equity.v)
             ELSE None

\* What a call does: it raises (raised = TRUE, no metrics) or returns metrics.
Raised(symbol, industry) ==
    [raised |-> TRUE, symbol |-> symbol, industry |-> industry,
     pe_ratio |-> None, revenue_growth |-> None, net_income_ttm |-> None,
     debt_ratio |-> None, last_revenue |-> None]

calculate_metrics(symbol, industry, price, income_raw, balance_raw) ==
    IF PrepRaises(income_raw, balance_raw) THEN Raised(symbol, industry)
    ELSE LET iq == income_quarters(income_raw)
             iy == income_years(income_raw)
             by == balance_years(balance_raw)
         IN  [raised |-> FALSE, symbol |-> symbol, industry |-> industry,
              pe_ratio |-> pe_ratio(price, iq),
              revenue_growth |-> revenue_growth(iq),
              net_income_ttm |-> net_income_ttm(iq, iy),
              debt_ratio |-> debt_ratio(by),
              last_revenue |-> last_revenue(iq, iy)]

----------------------------------------------------------------------------
\* Calls of calculate_metrics on their own: the arguments start as the rows of
\* the repository's tests and are then changed one field, date, period or row
\* at a time, the function being called again after every change.

\* Date ranks: 2022-12-31 is 1, 2023-06-30 is 2, 2023-09-30 is 3, 2023-12-31
\* is 4 and 2024-03-31 is 5.  eps and price are counted in halves, so that
\* the tests' 2.5 and 1.5 are whole numbers and the price 100.0 is 200.

\* income_raw of test_calculate_metrics_logic (test_etl.py 95-106)
TestIncome ==
    ListRaw(<< Row("Q1", Num(5), Num(4), Num(1000), Num(100)),
               Row("FY", Num(4), Num(20), Num(5000), Num(500)),
               Row("Q4", Num(4), Num(5), Num(1200), Num(120)),
               Row("Q3", Num(3), Num(3), Num(1000), Num(100)),
               Row("Q2", Num(2), Num(3), Num(1000), Num(100)) >>)

\* The same with the oldest quarter missing: three quarters and a year.
FallbackIncome == ListRaw(SubSeq(TestIncome.rows, 1, 4))

\* income_raw of test_calculate_metrics_insufficient_data (test_etl.py 144)
InsufficientIncome == ListRaw(<< Row("Q1", Num(5), Num(0), Absent, Absent) >>)

\* balance_raw of test_calculate_metrics_logic (test_etl.py 110-113)
TestBalance ==
    ListRaw(<< BalRow("FY", Num(4), Num(500), Num(1000), Absent),
               BalRow("FY", Num(1), Num(200), Num(800), Absent) >>)

BaseIncomes == {TestIncome, FallbackIncome, InsufficientIncome, NoneRaw}
BaseBalances == {TestBalance, ListRaw(<<>>)}
BasePrices == {Num(200), Str}

FieldVals == {Absent, Null} \cup {Num(n) : n \in 0..MaxVal}
DateVals == {Absent, Null} \cup {Num(n) : n \in 1..MaxDate}
EditPeriods == {"Q3", "FY", "none"}

DropRow(rows, i) == SubSeq(rows, 1, i - 1) \o SubSeq(rows, i + 1, Len(rows))

\* The arguments one change away from raw.
Edited(raw, fields) ==
    IF raw.shape # "list" THEN {}
    ELSE LET n == Len(raw.rows)
         IN  {ListRaw([raw.rows EXCEPT ![i][f] = x]) :
                  i \in 1..n, f \in fields, x \in FieldVals}
             \cup {ListRaw([raw.rows EXCEPT ![i].date = x]) :
                       i \in 1..n, x \in DateVals}
             \cup {ListRaw([raw.rows EXCEPT ![i].period = x]) :
                       i \in 1..n, x \in EditPeriods}
             \cup {ListRaw([raw.rows EXCEPT ![i].shape = "scalar"]) : i \in 1..n}
             \cup {ListRaw(DropRow(raw.rows, i)) : i \in 1..n}

NotCalled ==
    [called |-> FALSE, m |-> Raised("SYM", "Ind"),
     income_quarters |-> <<>>, income_years |-> <<>>, balance_years |-> <<>>]

\* A call and the three series it built (empty when it raised before them).
Call(price, income_raw, balance_raw) ==
    LET m == calculate_metrics("SYM", "Ind", price, income_raw, balance_raw)
    IN  [called |-> TRUE, m |-> m,
         income_quarters |-> IF m.raised THEN <<>> ELSE income_quarters(income_raw),
         income_years |-> IF m.raised THEN <<>> ELSE income_years(income_raw),
         balance_years |-> IF m.raised THEN <<>> ELSE balance_years(balance_raw)]

Calculate ==
    /\ ~c_out.called
    /\ c_out' = Call(c_price, c_income, c_balance)
    /\ UNCHANGED <<c_price, c_income, c_balance, c_edits>>

EditIncome ==
    /\ c_out.called
    /\ c_edits < MaxEdits
    /\ \E raw \in Edited(c_income, {"eps", "revenue", "netIncome"}) :
           /\ c_income' = raw
           /\ c_out' = Call(c_price, raw, c_balance)
    /\ c_edits' = c_edits + 1
    /\ UNCHANGED <<c_price, c_balance>>

EditBalance ==
    /\ c_out.called
    /\ c_edits < MaxEdits
    /\ \E raw \in Edited(c_balance, {"totalDebt", "totalEquity",
                                     "totalStockholdersEquity"}) :
           /\ c_balance' = raw
           /\ c_out' = Call(c_price, c_income, raw)
    /\ c_edits' = c_edits + 1
    /\ UNCHANGED <<c_price, c_income>>

\* The pipeline variables while only the calculator is exercised.
InitCalc ==
    /\ c_price \in BasePrices
    /\ c_income \in BaseIncomes
    /\ c_balance \in BaseBalances
    /\ c_out = NotCalled
    /\ c_edits = 0
    /\ pc = "off"
    /\ store = <<>>
    /\ aggs = <<>>
    /\ sess = <<>>
    /\ symbols = <<>>
    /\ idx = 0
    /\ health = [shape |-> "failed", text |-> <<>>]
    /\ attempt = [symbol |-> "", profile |-> "none", target |-> FALSE,
                  price_ok |-> FALSE, income_ok |-> FALSE, did |-> "none"]
    /\ fetched = FALSE
    /\ commits = 0
    /\ latest = <<>>
    /\ staged = <<>>

CalcNext ==
    \/ Calculate /\ UNCHANGED pipeVars
    \/ EditIncome /\ UNCHANGED pipeVars
    \/ EditBalance /\ UNCHANGED pipeVars

SpecCalc == InitCalc /\ [][CalcNext]_vars

----------------------------------------------------------------------------
\* The data provider's answers and the accessors that read them.  A request
\* that fails (_get_request returns None) is an answer of shape "failed".

Symbols == {"A", "B"}

\* TARGET_INDUSTRIES with the default list of main.py 19.
TARGET_INDUSTRIES ==
    << "Banks - Diversified", "Software - Application", "Consumer Electronics" >>

InTarget(industry) ==
    \E k \in 1..Len(TARGET_INDUSTRIES) : TARGET_INDUSTRIES[k] = industry

StartsWith(text, prefix) ==
    Len(text) >= Len(prefix) /\ SubSeq(text, 1, Len(prefix)) = prefix

\* The health texts: "Ok 0" in quotes, Ok 0 without them, "Err in quotes,
\* and the empty text.
HealthResponses ==
    { [shape |-> "failed", text |-> <<>>],
      [shape |-> "text", text |-> <<>>],
      [shape |-> "text", text |-> << "\"", "O", "k", " ", "0", "\"" >>],
      [shape |-> "text", text |-> << "O", "k", " ", "0" >>],
      [shape |-> "text", text |-> << "\"", "E", "r", "r", "\"" >>] }

check_system_health_any_text(response) ==
    response.shape = "text" /\ response.text # <<>>

check_system_health(response) ==
    /\ response.shape = "text"
    /\ response.text # <<>>
    /\ StartsWith(response.text, << "\"", "O", "k" >>)

\* The symbol lists the data provider returns: none, one symbol, two symbols,
\* one symbol twice.
SymbolLists == { <<>>, <<"A">>, <<"B">>, <<"A", "B">>, <<"A", "A">> }

SymbolResponses ==
    { [shape |-> "failed", has_symbols |-> FALSE, symbols |-> <<>>],
      [shape |-> "object", has_symbols |-> FALSE, symbols |-> <<>>] }
    \cup {[shape |-> "object", has_symbols |-> TRUE, symbols |-> l] :
              l \in SymbolLists}

get_all_symbols(data) ==
    IF data.shape = "object" /\ data.has_symbols
    THEN data.symbols
    ELSE <<>>

\* A profile: an object with industry and price, or an entry of the data list
\* that is no object (shape "scalar").  industry "" is a missing industry.
NoProfile == [shape |-> "none", industry |-> "", price |-> Absent]
ProfileObject(industry, price) ==
    [shape |-> "object", industry |-> industry, price |-> price]
ProfileScalar == [shape |-> "scalar", industry |-> "", price |-> Absent]

ProfileResponses ==
    { [shape |-> "failed", profile_data |-> <<>>],
      [shape |-> "object", profile_data |-> << ProfileScalar >>] }
    \cup {[shape |-> "object", profile_data |-> << ProfileObject(i, p) >>] :
              i \in {"Banks - Diversified", "Software - Application", "Tobacco"},
              p \in {Absent, Num(300)}}

get_company_profile(data) ==
    IF data.shape = "failed" \/ data.profile_data = <<>>
    THEN NoProfile
    ELSE data.profile_data[1]

\* stockprice.data of test_get_price_eod_sorting (test_etl.py 61-69), the
\* closes in halves.
TestEod ==
    << [date |-> Num(1), close |-> Num(200)],
       [date |-> Num(5), close |-> Num(300)],
       [date |-> Num(3), close |-> Num(240)] >>

EodResponses ==
    { [shape |-> "failed", price_data |-> <<>>],
      [shape |-> "object", price_data |-> TestEod] }

EodKey(entry) == IF entry.date.k = "absent" THEN Num(0) ELSE entry.date

\* The first entry of the list sorted by date, newest first: the earliest
\* entry among those with the largest date.
get_price_eod(data) ==
    IF data.shape = "failed" \/ data.price_data = <<>> THEN Null
    ELSE LET pd == data.price_data
             n == Len(pd)
         IN  IF n >= 2 /\ \E i \in 1..n : EodKey(pd[i]).k = "null" THEN Null
             ELSE LET top == CHOOSE i \in 1..n :
                                 /\ \A j \in 1..n : EodKey(pd[j]).v <= EodKey(pd[i]).v
                                 /\ \A j \in 1..(i - 1) : EodKey(pd[j]).v < EodKey(pd[i]).v
                  IN  IF pd[top].close.k = "absent" THEN Null ELSE pd[top].close

\* A rows list whose only row is no object.
MalformedRows == ListRaw(<< ScalarRow >>)

\* One quarter and one year whose revenue is null.
NullRevenueIncome ==
    ListRaw(<< Row("Q1", Num(5), Num(8), Num(1000), Num(100)),
               Row("FY", Num(4), Num(20), Null, Num(500)) >>)

IncomeResponses ==
    { [shape |-> "failed", data |-> NoneRaw],
      [shape |-> "object", data |-> TestIncome],
      [shape |-> "object", data |-> InsufficientIncome],
      [shape |-> "object", data |-> NullRevenueIncome],
      [shape |-> "object", data |-> MalformedRows] }

BalanceResponses == { [shape |-> "object", data |-> TestBalance] }

get_financials(data) == IF data.shape = "failed" THEN NoneRaw ELSE data.data

\* price = self.get_price_eod(symbol) or profile.get('price')   (main.py 229)
price_of(eod, profile) ==
    IF Truthy(eod) THEN eod
    ELSE IF profile.price.k = "absent" THEN Null ELSE profile.price

\* "if price and income_raw"   (main.py 231)
has_data_either(price, income_raw) == Truthy(price) \/ ~Falsy(income_raw)

has_data(price, income_raw) == Truthy(price) /\ ~Falsy(income_raw)

----------------------------------------------------------------------------
\* The two tables (models.py) and the upserts of run().  A table is the
\* sequence of its rows in insertion order; id and created_at are left out.

TickerStatistic(stats) ==
    [symbol |-> stats.symbol, industry |-> stats.industry,
     pe_ratio |-> stats.pe_ratio, revenue_growth |-> stats.revenue_growth,
     net_income_ttm |-> stats.net_income_ttm, debt_ratio |-> stats.debt_ratio,
     revenue |-> stats.last_revenue]

\* session.query(TickerStatistic).filter_by(symbol=...).first(): the index of
\* the first row of the symbol, 0 when there is none.  The session flushes
\* before a query, so rows added earlier in the run are found.
first_by_symbol(rows, symbol) ==
    IF \E i \in 1..Len(rows) : rows[i].symbol = symbol
    THEN CHOOSE i \in 1..Len(rows) :
             /\ rows[i].symbol = symbol
             /\ \A j \in 1..(i - 1) : rows[j].symbol # symbol
    ELSE 0

\* main.py 234-252
save_always_add(rows, stats) == Append(rows, TickerStatistic(stats))

save(rows, stats) ==
    LET i == first_by_symbol(rows, stats.symbol)
    IN  IF i # 0
        THEN [rows EXCEPT ![i].pe_ratio = stats.pe_ratio,
                          ![i].revenue_growth = stats.revenue_growth,
                          ![i].net_income_ttm = stats.net_income_ttm,
                          ![i].debt_ratio = stats.debt_ratio,
                          ![i].revenue = stats.last_revenue]
        ELSE Append(rows, TickerStatistic(stats))

RECURSIVE industry_rows(_, _)
industry_rows(rows, industry) ==
    IF rows = <<>> THEN <<>>
    ELSE IF Head(rows).industry = industry
         THEN <<Head(rows)>> \o industry_rows(Tail(rows), industry)
         ELSE industry_rows(Tail(rows), industry)

RECURSIVE NonNull(_, _)
NonNull(rows, column) ==
    IF rows = <<>> THEN <<>>
    ELSE IF Head(rows)[column].k = "num"
         THEN <<Head(rows)[column]>> \o NonNull(Tail(rows), column)
         ELSE NonNull(Tail(rows), column)

RECURSIVE Total(_)
Total(values) ==
    IF values = <<>> THEN Frac(0, 1) ELSE FracAdd(Head(values), Total(Tail(values)))

\* func.sum: the sum of the values that are not NULL, NULL when there is none.
func_sum(rows, column) ==
    IF NonNull(rows, column) = <<>> THEN None ELSE Total(NonNull(rows, column))

\* func.avg: the mean of the values that are not NULL, NULL when there is none.
func_avg(rows, column) ==
    IF NonNull(rows, column) = <<>> THEN None
    ELSE LET t == Total(NonNull(rows, column))
         IN  Frac(t.n, t.d * Len(NonNull(rows, column)))

\* One row of the grouped query (main.py 259-268).
result_row(rows, industry) ==
    [industry |-> industry,
     avg_pe_ratio |-> func_avg(industry_rows(rows, industry), "pe_ratio"),
     avg_revenue_growth |-> func_avg(industry_rows(rows, industry), "revenue_growth"),
     sum_revenue |-> func_sum(industry_rows(rows, industry), "revenue")]

first_by_industry(rows, industry) ==
    IF \E i \in 1..Len(rows) : rows[i].industry = industry
    THEN CHOOSE i \in 1..Len(rows) :
             /\ rows[i].industry = industry
             /\ \A j \in 1..(i - 1) : rows[j].industry # industry
    ELSE 0

\* main.py 270-285 for one result row.
save_aggregation(table, row) ==
    LET i == first_by_industry(table, row.industry)
    IN  IF i # 0
        THEN [table EXCEPT ![i].avg_pe_ratio = row.avg_pe_ratio,
                           ![i].avg_revenue_growth = row.avg_revenue_growth,
                           ![i].sum_revenue = row.sum_revenue]
        ELSE Append(table, row)

\* The aggregation step over the target industries that have a row, taken in
\* the order of TARGET_INDUSTRIES (the order of the groups changes no row).
RECURSIVE aggregate_from(_, _, _)
aggregate_from(table, rows, k) ==
    IF k > Len(TARGET_INDUSTRIES) THEN table
    ELSE IF industry_rows(rows, TARGET_INDUSTRIES[k]) = <<>>
         THEN aggregate_from(table, rows, k + 1)
         ELSE aggregate_from(save_aggregation(table, result_row(rows, TARGET_INDUSTRIES[k])),
                             rows, k + 1)

aggregate(table, rows) == aggregate_from(table, rows, 1)

----------------------------------------------------------------------------
\* FiindoETL.run

\* The five values a computation stores for a symbol, as the run remembers
\* them for the symbol; computed = FALSE while there was no computation.
Computed(stats) ==
    [computed |-> TRUE, pe_ratio |-> stats.pe_ratio,
     revenue_growth |-> stats.revenue_growth,
     net_income_ttm |-> stats.net_income_ttm, debt_ratio |-> stats.debt_ratio,
     last_revenue |-> stats.last_revenue]

NoStats == [Computed(Raised("", "")) EXCEPT !.computed = FALSE]

NoAttempt ==
    [symbol |-> "", profile |-> "none", target |-> FALSE,
     price_ok |-> FALSE, income_ok |-> FALSE, did |-> "none"]

Ended == {"idle", "done", "aborted", "crashed"}

\* main.py 205: the health probe fails and run() returns.
HealthFail ==
    /\ pc \in Ended
    /\ \E h \in HealthResponses :
           /\ ~check_system_health(h)
           /\ health' = h
    /\ pc' = "aborted"
    /\ symbols' = <<>>
    /\ idx' = 0
    /\ attempt' = NoAttempt
    /\ fetched' = FALSE
    /\ commits' = 0
    /\ UNCHANGED <<store, aggs, sess, latest, staged>>

\* main.py 205-213: the probe passes, a session opens, the symbols are fetched.
Begin ==
    /\ pc \in Ended
    /\ \E h \in HealthResponses :
           /\ check_system_health(h)
           /\ health' = h
    /\ \E r \in SymbolResponses : symbols' = get_all_symbols(r)
    /\ pc' = "loop"
    /\ idx' = 0
    /\ attempt' = NoAttempt
    /\ fetched' = TRUE
    /\ commits' = 0
    /\ sess' = store
    /\ staged' = latest
    /\ UNCHANGED <<store, aggs, latest>>

\* One iteration of the loop (main.py 215-253) for a symbol and the four
\* answers of the data provider: what it did and the stats it computed.
iteration(symbol, rows, presp, iresp, bresp, eresp) ==
    LET profile == get_company_profile(presp)
        industry == profile.industry
        income_raw == get_financials(iresp)
        balance_raw == get_financials(bresp)
        price == price_of(get_price_eod(eresp), profile)
        stats == calculate_metrics(symbol, industry, price, income_raw, balance_raw)
        seen == [symbol |-> symbol, profile |-> profile.shape,
                 target |-> profile.shape = "object" /\ InTarget(industry),
                 price_ok |-> Truthy(price), income_ok |-> ~Falsy(income_raw),
                 did |-> "skip"]
    IN  IF profile.shape = "none" THEN seen
        ELSE IF profile.shape = "scalar" THEN [seen EXCEPT !.did = "crash"]
        ELSE IF ~InTarget(industry) THEN seen
        ELSE IF ~has_data(price, income_raw) THEN seen
        ELSE IF stats.raised THEN [seen EXCEPT !.did = "crash"]
        ELSE IF first_by_symbol(rows, symbol) # 0 THEN [seen EXCEPT !.did = "update"]
        ELSE [seen EXCEPT !.did = "insert"]

NotFetched == [shape |-> "failed", data |-> NoneRaw]
NoEod == [shape |-> "failed", price_data |-> <<>>]

Wanted(presp) ==
    LET profile == get_company_profile(presp)
    IN  profile.shape = "object" /\ InTarget(profile.industry)

ProcessSymbol ==
    /\ pc = "loop"
    /\ idx < Len(symbols)
    /\ \E presp \in ProfileResponses :
       \* the statements and the price are fetched only for a target profile
       \E iresp \in IF Wanted(presp) THEN IncomeResponses ELSE {NotFetched},
          bresp \in IF Wanted(presp) THEN BalanceResponses ELSE {NotFetched},
          eresp \in IF Wanted(presp) THEN EodResponses ELSE {NoEod} :
           LET symbol == symbols[idx + 1]
               a == iteration(symbol, sess, presp, iresp, bresp, eresp)
               profile == get_company_profile(presp)
               stats == calculate_metrics(symbol, profile.industry,
                                          price_of(get_price_eod(eresp), profile),
                                          get_financials(iresp), get_financials(bresp))
           IN  /\ attempt' = a
               /\ IF a.did = "crash"
                  THEN \* the exception leaves run(): nothing staged is committed
                       /\ pc' = "crashed"
                       /\ sess' = store
                       /\ staged' = latest
                  ELSE IF a.did \in {"insert", "update"}
                  THEN /\ pc' = pc
                       /\ sess' = save(sess, stats)
                       /\ staged' = [staged EXCEPT ![symbol] = Computed(stats)]
                  ELSE /\ pc' = pc
                       /\ UNCHANGED <<sess, staged>>
    /\ idx' = idx + 1
    /\ UNCHANGED <<store, aggs, symbols, health, fetched, commits, latest>>

\* main.py 255-289: commit, aggregate the committed table, commit, close.
FinishBeforeCommit ==
    /\ pc = "loop"
    /\ idx = Len(symbols)
    /\ store' = sess
    /\ latest' = staged
    /\ aggs' = aggregate(aggs, store)
    /\ commits' = 2
    /\ pc' = "done"
    /\ UNCHANGED <<sess, symbols, idx, health, attempt, fetched, staged>>

Finish ==
    /\ pc = "loop"
    /\ idx = Len(symbols)
    /\ store' = sess
    /\ latest' = staged
    /\ aggs' = aggregate(aggs, sess)
    /\ commits' = 2
    /\ pc' = "done"
    /\ UNCHANGED <<sess, symbols, idx, health, attempt, fetched, staged>>

Init ==
    /\ pc = "idle"
    /\ store = <<>>
    /\ aggs = <<>>
    /\ sess = <<>>
    /\ symbols = <<>>
    /\ idx = 0
    /\ health = [shape |-> "failed", text |-> <<>>]
    /\ attempt = NoAttempt
    /\ fetched = FALSE
    /\ commits = 0
    /\ latest = [s \in Symbols |-> NoStats]
    /\ staged = [s \in Symbols |-> NoStats]
    /\ c_price = Num(200)
    /\ c_income = NoneRaw
    /\ c_balance = NoneRaw
    /\ c_out = NotCalled
    /\ c_edits = 0

Next ==
    \/ HealthFail /\ UNCHANGED calcVars
    \/ Begin /\ UNCHANGED calcVars
    \/ ProcessSymbol /\ UNCHANGED calcVars
    \/ Finish /\ UNCHANGED calcVars

Spec == Init /\ [][Next]_vars

----------------------------------------------------------------------------
\* Properties of the pipeline (specification Spec)

\* C1: after every completed run the committed ticker table holds exactly one
\* row for every symbol that was ever computed and committed, none for the
\* others, and the five computed values of that row (pe_ratio,
\* revenue_growth, net_income_ttm, debt_ratio, revenue) are those of the most
\* recent committed computation of the symbol.
UpsertIdempotence ==
    \A s \in Symbols :
        LET at == {i \in 1..Len(store) : store[i].symbol = s}
        IN  IF latest[s].computed
            THEN /\ Cardinality(at) = 1
                 /\ \A i \in at :
                        /\ store[i].pe_ratio = latest[s].pe_ratio
                        /\ store[i].revenue_growth = latest[s].revenue_growth
                        /\ store[i].net_income_ttm = latest[s].net_income_ttm
                        /\ store[i].debt_ratio = latest[s].debt_ratio
                        /\ store[i].revenue = latest[s].last_revenue
            ELSE at = {}

\* A run over the list A, A has ended with an update of A's row while B's row
\* of an earlier run is in the table.
UpsertTwiceInOneRun ==
    /\ pc = "done"
    /\ symbols = <<"A", "A">>
    /\ attempt.did = "update"
    /\ Len(store) = 2
    /\ \E i \in 1..Len(store) : store[i].symbol = "B"

\* C2: when a run is done, everything staged is committed and, for every
\* target industry with a committed row, there is exactly one aggregate row,
\* computed over all committed rows of the industry, whether this run wrote
\* them or an earlier one did.
AggregationScope ==
    pc = "done" =>
        /\ store = sess
        /\ commits = 2
        /\ \A k \in 1..Len(TARGET_INDUSTRIES) :
               LET ind == TARGET_INDUSTRIES[k]
                   mine == SelectSeq(store, LAMBDA r : r.industry = ind)
                   at == {i \in 1..Len(aggs) : aggs[i].industry = ind}
               IN  mine # <<>> =>
                       /\ Cardinality(at) = 1
                       /\ \A i \in at :
                              aggs[i] = [industry |-> ind,
                                         avg_pe_ratio |-> func_avg(mine, "pe_ratio"),
                                         avg_revenue_growth |-> func_avg(mine, "revenue_growth"),
                                         sum_revenue |-> func_sum(mine, "revenue")]

\* A run is done whose last iteration wrote a row of an industry that also
\* has a row of a symbol the run did not have in its list.
AggregatesUntouchedRow ==
    /\ pc = "done"
    /\ attempt.did \in {"insert", "update"}
    /\ \E i, j \in 1..Len(store) :
           /\ store[i].symbol = attempt.symbol
           /\ store[j].industry = store[i].industry
           /\ \A k \in 1..Len(symbols) : symbols[k] # store[j].symbol

\* The health text starts with the three characters "Ok.
StartsWithQuoteOk(h) ==
    /\ h.shape = "text"
    /\ Len(h.text) >= 3
    /\ h.text[1] = "\""
    /\ h.text[2] = "O"
    /\ h.text[3] = "k"

\* C3: a run whose health probe fails, or whose health text does not start
\* with "Ok, ends at once: no data-provider call after the probe, no symbol
\* attempted, no commit, and both tables as they were.
HealthGate ==
    [][(pc \in Ended /\ ~StartsWithQuoteOk(health'))
           => /\ pc' = "aborted"
              /\ store' = store
              /\ aggs' = aggs
              /\ ~fetched'
              /\ commits' = 0
              /\ idx' = 0]_vars

\* A run was aborted on a health text that is not empty, with rows in both
\* tables from an earlier run.
AbortedOnBadText ==
    /\ pc = "aborted"
    /\ health.shape = "text"
    /\ health.text # <<>>
    /\ store # <<>>
    /\ aggs # <<>>
    /\ ~fetched
    /\ commits = 0

\* What the last iteration found: a target profile, a price and income rows.
Available(a) == a.profile = "object" /\ a.target /\ a.price_ok /\ a.income_ok

\* C4: an iteration for a symbol whose profile is unavailable, whose industry
\* is no target, or that lacks a price or income rows leaves the session's
\* table as it was; an iteration changes the table only with both a price and
\* income rows, and then only the row of its symbol; no iteration changes a
\* committed table.
SkipWritesNothing ==
    [][(pc = "loop" /\ idx' = idx + 1)
           => /\ store' = store
              /\ aggs' = aggs
              /\ (pc' = "loop" /\ ~Available(attempt')) => sess' = sess
              /\ (pc' = "loop" /\ sess' # sess) =>
                     /\ Available(attempt')
                     /\ Len(sess') \in {Len(sess), Len(sess) + 1}
                     /\ \A i \in 1..Len(sess) :
                            sess[i].symbol # attempt'.symbol => sess'[i] = sess[i]
                     /\ \A i \in 1..Len(sess') :
                            i > Len(sess) => sess'[i].symbol = attempt'.symbol]_vars

\* An iteration skipped a symbol that has a price and a target profile but no
\* income rows, while the table holds a row of the symbol.
SkippedWithExistingRow ==
    /\ pc = "loop"
    /\ attempt.did = "skip"
    /\ attempt.target
    /\ attempt.price_ok
    /\ ~attempt.income_ok
    /\ first_by_symbol(sess, attempt.symbol) # 0
    /\ sess = store

\* C5: once the health probe has passed, no iteration ends the run: the run
\* is never left by an exception.
NeverAborts == pc # "crashed"

RECURSIVE SetTotal(_, _)
SetTotal(S, column) ==
    IF S = {} THEN Frac(0, 1)
    ELSE LET i == CHOOSE i \in S : TRUE
         IN  FracAdd(store[i][column], SetTotal(S \ {i}, column))

\* m is the mean of the column over the rows S, null when S is empty.
MeanIs(m, S, column) ==
    IF S = {} THEN m = None
    ELSE /\ m.k = "num"
         /\ m.n * SetTotal(S, column).d * Cardinality(S) = m.d * SetTotal(S, column).n

WithValue(industry, column) ==
    {i \in 1..Len(store) : store[i].industry = industry /\ store[i][column].k = "num"}

\* C6: every aggregate row holds the mean of pe_ratio and of revenue_growth
\* over the committed rows of its industry whose value is not null (null when
\* there is none), and sum_revenue is the sum of the revenues of the industry
\* with a null revenue counted as 0, so 0 when every revenue is null.
NullExclusionSumZero ==
    \A a \in 1..Len(aggs) :
        /\ MeanIs(aggs[a].avg_pe_ratio, WithValue(aggs[a].industry, "pe_ratio"), "pe_ratio")
        /\ MeanIs(aggs[a].avg_revenue_growth,
                  WithValue(aggs[a].industry, "revenue_growth"), "revenue_growth")
        /\ aggs[a].sum_revenue = SetTotal(WithValue(aggs[a].industry, "revenue"), "revenue")

----------------------------------------------------------------------------
\* Properties of calculate_metrics (specification SpecCalc), stated on the
\* arguments of the call rather than on the series the function builds.

InputRows(raw) == IF raw.shape = "list" THEN raw.rows ELSE <<>>

\* The date of a row as it is compared: a missing date is the empty string,
\* which is before every date.
KeyOf(r) == IF r.date.k = "num" THEN r.date.v ELSE 0

Members(rows, periods) == {i \in 1..Len(rows) : rows[i].period \in periods}

\* The place of row i among the rows S, newest first, rows of one date in the
\* order of the input.
Place(rows, S, i) ==
    1 + Cardinality({j \in S : \/ KeyOf(rows[j]) > KeyOf(rows[i])
                               \/ KeyOf(rows[j]) = KeyOf(rows[i]) /\ j < i})

RowAt(rows, S, p) == rows[CHOOSE i \in S : Place(rows, S, i) = p]

IsSeries(series, rows, periods) ==
    LET S == Members(rows, periods)
    IN  /\ Len(series) = Cardinality(S)
        /\ \A i \in S : series[Place(rows, S, i)] = rows[i]

NonIncreasing(series) ==
    \A a \in 1..(Len(series) - 1) : KeyOf(series[a]) >= KeyOf(series[a + 1])

StrictlyDescending(series) ==
    \A a \in 1..(Len(series) - 1) : KeyOf(series[a]) > KeyOf(series[a + 1])

\* A row that is no object cannot be asked for its period.
CannotClassify(raw) ==
    \E i \in 1..Len(InputRows(raw)) : InputRows(raw)[i].shape # "object"

\* Two or more rows of a series, one of them with a null date, cannot be
\* ordered.
CannotOrder(raw, periods) ==
    LET S == Members(InputRows(raw), periods)
    IN  Cardinality(S) >= 2 /\ \E i \in S : InputRows(raw)[i].date.k = "null"

Returned == c_out.called /\ ~c_out.m.raised

\* The value of a field in a sum: a missing field counts as 0.
ValueOr0(x) == IF x.k = "num" THEN x.v ELSE 0

RECURSIVE SumField(_, _, _)
SumField(rows, T, f) ==
    IF T = {} THEN 0
    ELSE LET i == CHOOSE i \in T : TRUE
         IN  ValueOr0(rows[i][f]) + SumField(rows, T \ {i}, f)

NumbersOrMissing(rows, T, f) == \A i \in T : rows[i][f].k \in {"num", "absent"}

\* C7: whenever calculate_metrics returns: with four or more quarterly rows
\* net_income_ttm is the sum of netIncome, and last_revenue the sum of revenue,
\* over the four newest quarterly rows, a missing field counting as 0 and no FY
\* row being included; with fewer and at least one FY row both are the fields
\* of the newest FY row; otherwise net_income_ttm is null and last_revenue is
\* 0; and last_revenue is never null.
TtmRule ==
    Returned =>
        LET rows == InputRows(c_income)
            Q == Members(rows, Quarters)
            Y == Members(rows, {"FY"})
            T == {i \in Q : Place(rows, Q, i) <= 4}
            m == c_out.m
        IN  /\ m.last_revenue.k = "num"
            /\ IF Cardinality(Q) >= 4
               THEN /\ NumbersOrMissing(rows, T, "netIncome")
                           => m.net_income_ttm = Frac(SumField(rows, T, "netIncome"), 1)
                    /\ NumbersOrMissing(rows, T, "netIncome")
                         /\ NumbersOrMissing(rows, T, "revenue")
                           => m.last_revenue = Frac(SumField(rows, T, "revenue"), 1)
               ELSE IF Y # {}
               THEN LET y == RowAt(rows, Y, 1)
                    IN  /\ y.netIncome.k # "null"
                               => m.net_income_ttm = Frac(ValueOr0(y.netIncome), 1)
                        /\ y.revenue.k # "null"
                               => m.last_revenue = Frac(ValueOr0(y.revenue), 1)
               ELSE m.net_income_ttm = None /\ m.last_revenue = Frac(0, 1)

\* C8: whenever calculate_metrics returns: with fewer than three quarterly
\* rows revenue_growth is null; otherwise, a being the revenue of the second
\* newest quarterly row and b that of the third newest, revenue_growth is
\* (a - b) / b when b is a number other than 0 and a is a number or missing
\* (a missing a counting as 0), and null when b is missing, null or 0 or a is
\* null.  The newest quarterly row and the FY rows have no part in it.
GrowthRule ==
    Returned =>
        LET rows == InputRows(c_income)
            Q == Members(rows, Quarters)
            g == c_out.m.revenue_growth
        IN  IF Cardinality(Q) < 3 THEN g = None
            ELSE LET a == RowAt(rows, Q, 2).revenue
                     b == RowAt(rows, Q, 3).revenue
                 IN  IF b.k = "num" /\ b.v # 0 /\ a.k # "null"
                     THEN /\ g.k = "num"
                          /\ g.n * b.v = g.d * (ValueOr0(a) - b.v)
                     ELSE g = None

\* A call returned a revenue_growth for three or more quarterly rows of which
\* the newest has another revenue than the second newest.
GrowthFromOlderQuarters ==
    /\ Returned
    /\ Cardinality(Members(InputRows(c_income), Quarters)) >= 3
    /\ c_out.m.revenue_growth.k = "num"
    /\ LET rows == InputRows(c_income)
           Q == Members(rows, Quarters)
       IN  RowAt(rows, Q, 1).revenue # RowAt(rows, Q, 2).revenue

\* C9: every call of calculate_metrics returns a metric set: none raises.
NoException == c_out.called => ~c_out.m.raised

Series(periods, built, raw) ==
    /\ IsSeries(built, InputRows(raw), periods)
    /\ \A a \in 1..Len(built) : built[a].period \in periods

====
